---- MODULE Spec2Model ----
(***************************************************************************)
(* A model of src/algo.py: the estimator family (Algo and its subclasses), *)
(* the similarity matrix and the ALS bias model.                           *)
(*                                                                         *)
(* Numbers.  The code computes in float64.  The model computes the same    *)
(* expressions exactly: a rational is a pair <<n, d>> with d > 0 in lowest *)
(* terms, <<0, 0>> is NaN, and a similarity is a triple <<n, d, q>> that   *)
(* stands for n / (d * sqrt(q)) (q = 1 for a rational similarity), so that *)
(* the cosine similarity prods / sqrt(sqi * sqj) has an exact value.       *)
(* Rounding of float64 is not modelled.                                    *)
(***************************************************************************)
EXTENDS Integers, Sequences, FiniteSets, TLC

VARIABLES
    ub,          \* self.ub: TRUE when x is a user and y a movie
    lastXi,      \* self.lastXi
    lastYi,      \* self.lastYi
    rm,          \* self.rm: rm[x][y] is the rating of y by x, 0 when absent
    xr,          \* self.xr: xr[x] is the sequence of <<y, r>> rated by x
    yr,          \* self.yr: yr[y] is the sequence of <<x, r>> that rated y
    algo,        \* self.infos['name'], "none" before a subclass is constructed
    sim,         \* self.infos['params']['sim']
    simMat,      \* self.simMat over 1..lastXi; a cell np.empty left unwritten is <<>>
    k,           \* self.k
    mu,          \* self.mu
    xBiases,     \* self.xBiases
    yBiases,     \* self.yBiases
    nDone,       \* number of completed passes of the loop of optimize_als
    fqs,         \* the histogram of AlgoRandom.__init__ before normalisation
    distrib,     \* self.distrib: the normalised histogram
    est,         \* self.est: a rational, or <<rats, wts, "wavg">> (see average)
    candidates,  \* the list candidates of the last AlgoClone.estimate
    simX0,       \* the sorted neighbour list of the last KNN estimate
    ret,         \* the last call of simMSDClone: <<xi, xj, returned value>>
    query,       \* the <<x0, y0>> of the last estimate
    sentinel,    \* TRUE when the last estimate took a branch that sets est = 0
    rawEst,      \* self.est as the last estimate left it
    preds,       \* self.infos['preds']
    pc           \* position of the caller: "new", "ready", "estimated", "cut", "raised"

vars == <<ub, lastXi, lastYi, rm, xr, yr, algo, sim, simMat, k, mu, xBiases,
          yBiases, nDone, fqs, distrib, est, candidates, simX0, ret, query,
          sentinel, rawEst, preds, pc>>

relVars == <<ub, lastXi, lastYi, rm, xr, yr>>

----------------------------------------------------------------------------
(* Bounds of the model *)

\* cmn.lastUi: the number of users of the data set
LastUi == 2
\* cmn.lastMi: the number of movies of the data set
LastMi == 2
\* the number of ratings of the data set
MaxRatings == 4
\* the number of predictions recorded in one run
MaxPreds == 1

----------------------------------------------------------------------------
(* Exact arithmetic *)

Abs(n) == IF n < 0 THEN -n ELSE n

RECURSIVE GCD(_, _)
GCD(a, b) == IF b = 0 THEN a ELSE GCD(b, a % b)

\* the rational n / d in lowest terms, d /= 0
Rat(n, d) ==
    LET s == IF d < 0 THEN -1 ELSE 1
        g == GCD(Abs(n), Abs(d))
    IN  <<(s * n) \div g, (s * d) \div g>>

NaN == <<0, 0>>
IsNaN(a) == a[2] = 0
RInt(n) == <<n, 1>>
RAdd(a, b) == IF IsNaN(a) \/ IsNaN(b) THEN NaN
              ELSE Rat(a[1] * b[2] + b[1] * a[2], a[2] * b[2])
RNeg(a) == <<-a[1], a[2]>>
RSub(a, b) == RAdd(a, RNeg(b))
RMul(a, b) == IF IsNaN(a) \/ IsNaN(b) THEN NaN
              ELSE Rat(a[1] * b[1], a[2] * b[2])
\* a / b, b /= 0
RDiv(a, b) == IF IsNaN(a) \/ IsNaN(b) THEN NaN
              ELSE Rat(a[1] * b[2], a[2] * b[1])
\* a < b as float comparison: FALSE when either is NaN
RLess(a, b) == ~IsNaN(a) /\ ~IsNaN(b) /\ a[1] * b[2] < b[1] * a[2]
RIsZero(a) == ~IsNaN(a) /\ a[1] = 0

RECURSIVE RSum(_)
RSum(s) == IF s = <<>> THEN RInt(0) ELSE RAdd(Head(s), RSum(Tail(s)))

RECURSIVE ISum(_)
ISum(s) == IF s = <<>> THEN 0 ELSE Head(s) + ISum(Tail(s))

RECURSIVE SumOver(_, _)
\* the sum of f[e] over the elements e of the finite set S
SumOver(S, f) ==
    IF S = {} THEN 0
    ELSE LET e == CHOOSE e \in S : TRUE IN f[e] + SumOver(S \ {e}, f)

\* the largest s with s * s dividing q, q >= 1, s <= m
SquarePart(q, m) ==
    LET S == {s \in 1..m : q % (s * s) = 0}
    IN  CHOOSE s \in S : \A t \in S : t <= s

\* the similarity n / (d * sqrt(q)) in normal form: q squarefree, n/d lowest
Surd(n, d, q, m) ==
    LET s == SquarePart(q, m)
        r == Rat(n, d * s)
    IN  <<r[1], r[2], q \div (s * s)>>

SRat(a) == <<a[1], a[2], 1>>
SInt(n) == <<n, 1, 1>>
SIsRat(w) == w[3] = 1
SIsZero(w) == w[1] = 0
\* w1 < w2 for similarities
SLess(w1, w2) ==
    LET a == w1[1] * w1[1] * w2[2] * w2[2] * w2[3]   \* proportional to w1^2
        b == w2[1] * w2[1] * w1[2] * w1[2] * w1[3]   \* proportional to w2^2
    IN  IF w1[1] >= 0 /\ w2[1] >= 0 THEN a < b
        ELSE IF w1[1] < 0 /\ w2[1] < 0 THEN b < a
        ELSE w1[1] < w2[1]

----------------------------------------------------------------------------
(* The rating relation *)

\* the ratings a data set holds
Ratings == 1..5

\* the sequences that list every element of the finite set S once
Perms(S) ==
    {s \in [1..Cardinality(S) -> S] :
        \A i, j \in 1..Cardinality(S) : s[i] = s[j] => i = j}

\* the pairs <<y, r>> that xr[x] lists and the pairs <<x, r>> that yr[y] lists
RowOf(m, x, ny) == {<<y, m[x][y]>> : y \in {z \in 1..ny : m[x][z] > 0}}
ColOf(m, y, nx) == {<<x, m[x][y]>> : x \in {z \in 1..nx : m[z][y] > 0}}

\* the sequences that may list the pairs of S, each led by an entity: in any
\* order, or in ascending order of the entity only
Listings(S, anyOrder) ==
    IF anyOrder THEN Perms(S)
    ELSE {s \in Perms(S) : \A i, j \in 1..Len(s) : i < j => s[i][1] < s[j][1]}

RECURSIVE XOrders(_, _, _, _)
\* the values xr may have over the X-entities 1..x of the relation m
XOrders(m, x, ny, anyOrder) ==
    IF x = 0 THEN {<<>>}
    ELSE {Append(f, q) : f \in XOrders(m, x - 1, ny, anyOrder),
                         q \in Listings(RowOf(m, x, ny), anyOrder)}

RECURSIVE YOrders(_, _, _, _)
\* the values yr may have over the Y-entities 1..y of the relation m
YOrders(m, y, nx, anyOrder) ==
    IF y = 0 THEN {<<>>}
    ELSE {Append(f, q) : f \in YOrders(m, y - 1, nx, anyOrder),
                         q \in Listings(ColOf(m, y, nx), anyOrder)}

\* Algo.__init__: the state once the base class is constructed over a
\* relation of rels with nx X-entities and ny Y-entities; the two indexes
\* list exactly the nonzero entries, in the orders that anyOrder allows
AlgoInit(b, nx, ny, rels, anyOrder) ==
    /\ ub = b
    /\ lastXi = nx
    /\ lastYi = ny
    /\ rm \in rels
    /\ xr \in XOrders(rm, nx, ny, anyOrder)
    /\ yr \in YOrders(rm, ny, nx, anyOrder)
    /\ algo = "none"
    /\ sim = "none"
    /\ simMat = <<>>
    /\ k = 0
    /\ mu = RInt(0)
    /\ xBiases = <<>>
    /\ yBiases = <<>>
    /\ nDone = 0
    /\ fqs = <<>>
    /\ distrib = <<>>
    /\ est = RInt(0)
    /\ candidates = <<>>
    /\ simX0 = <<>>
    /\ ret = <<>>
    /\ query = <<>>
    /\ sentinel = FALSE
    /\ rawEst = RInt(0)
    /\ preds = <<>>
    /\ pc = "new"

\* Algo.getx0y0
getx0y0(u0, m0) == IF ub THEN <<u0, m0>> ELSE <<m0, u0>>

Users == 1..(IF ub THEN lastXi ELSE lastYi)
Movies == 1..(IF ub THEN lastYi ELSE lastXi)

----------------------------------------------------------------------------
(* AlgoUsingSim: the similarity measures *)

\* the value of simMat[a, b] := v on the matrix mat
SetCell(mat, a, b, v) == [mat EXCEPT ![a][b] = v]

\* np.empty((lastXi + 1, lastXi + 1)): no cell holds a written value
EmptyMat == [xi \in 1..lastXi |-> [xj \in 1..lastXi |-> <<>>]]

\* the accumulation loops of constructCosineSimMat and constructMSDSimMat:
\* the sum of F[r1, r2] over every y and every pair (a, r1), (b, r2) that
\* combinations(yr[y], 2) yields, i.e. with (a, r1) listed before (b, r2)
PairAcc(a, b, F) ==
    LET T == {t \in (1..lastYi) \X (1..lastXi) \X (1..lastXi) :
                 /\ t[2] < t[3]
                 /\ t[3] <= Len(yr[t[1]])
                 /\ yr[t[1]][t[2]][1] = a
                 /\ yr[t[1]][t[3]][1] = b}
        f == [t \in T |-> F[yr[t[1]][t[2]][2], yr[t[1]][t[3]][2]]]
    IN  SumOver(T, f)

\* the terms the loops add for the ratings r1 and r2
Prod == [r1 \in Ratings, r2 \in Ratings |-> r1 * r2]
One == [r1 \in Ratings, r2 \in Ratings |-> 1]
Sq1 == [r1 \in Ratings, r2 \in Ratings |-> r1 * r1]
Sq2 == [r1 \in Ratings, r2 \in Ratings |-> r2 * r2]
SqDiffOf == [r1 \in Ratings, r2 \in Ratings |-> (r1 - r2) * (r1 - r2)]

prods(a, b) == PairAcc(a, b, Prod)
freq(a, b) == PairAcc(a, b, One)
sqi(a, b) == PairAcc(a, b, Sq1)
sqj(a, b) == PairAcc(a, b, Sq2)
sqDiff(a, b) == PairAcc(a, b, SqDiffOf)

\* lines 171-175: the value constructCosineSimMat stores at [xi, xj]
CosValue(xi, xj) ==
    IF freq(xi, xj) = 0 THEN SInt(0)
    ELSE Surd(prods(xi, xj), 1, sqi(xi, xj) * sqj(xi, xj),
              sqi(xi, xj) + sqj(xi, xj))

\* line 177: the cell that receives the copy of simMat[xi, xj]
CosMirrorCell(xi, xj) == <<xj, xi>>

RECURSIVE CosRow(_, _, _)
\* lines 170-177: the inner loop, from column xj on
CosRow(mat, xi, xj) ==
    IF xj > lastXi THEN mat
    ELSE LET m1 == SetCell(mat, xi, xj, CosValue(xi, xj))
             c  == CosMirrorCell(xi, xj)
         IN  CosRow(SetCell(m1, c[1], c[2], m1[xi][xj]), xi, xj + 1)

RECURSIVE CosRows(_, _)
\* lines 168-177: the outer loop, from row xi on
CosRows(mat, xi) ==
    IF xi > lastXi THEN mat
    ELSE CosRows(CosRow(SetCell(mat, xi, xi, SInt(1)), xi, xi + 1), xi + 1)

constructCosineSimMat == CosRows(EmptyMat, 1)

\* line 198: the value written on the diagonal before the inner loop
MSDDiagonal == 100

\* lines 200-203: the value constructMSDSimMat stores at [xi, xj]
MSDValue(xi, xj) ==
    IF sqDiff(xi, xj) = 0 THEN SInt(freq(xi, xj))
    ELSE SRat(Rat(freq(xi, xj), sqDiff(xi, xj)))

\* a slip in line 205: the copy goes back to the cell it was read from
MSDMirrorSameCell(xi, xj) == <<xi, xj>>

\* line 205: the cell that receives the copy of simMat[xi, xj]
MSDMirrorCell(xi, xj) == <<xj, xi>>

RECURSIVE MSDRow(_, _, _)
\* lines 199-205: the inner loop, from column xj on
MSDRow(mat, xi, xj) ==
    IF xj > lastXi THEN mat
    ELSE LET m1 == SetCell(mat, xi, xj, MSDValue(xi, xj))
             c  == MSDMirrorCell(xi, xj)
         IN  MSDRow(SetCell(m1, c[1], c[2], m1[xi][xj]), xi, xj + 1)

RECURSIVE MSDRows(_, _)
\* lines 197-205: the outer loop; the inner loop starts at column xi itself
MSDRows(mat, xi) ==
    IF xi > lastXi THEN mat
    ELSE MSDRows(MSDRow(SetCell(mat, xi, xi, SInt(MSDDiagonal)), xi, xi), xi + 1)

constructMSDSimMat == MSDRows(EmptyMat, 1)

\* the names constructSimMat accepts
knownSim == {"cos", "MSD", "MSDClone"}

\* constructSimMat: the matrix left in self.simMat for a known name; for
\* 'MSDClone' neither branch runs and the matrix stays as np.empty made it
constructSimMat(s) ==
    IF s = "cos" THEN constructCosineSimMat
    ELSE IF s = "MSD" THEN constructMSDSimMat
    ELSE EmptyMat

\* line 212: the Y-entities of xr[xi] that xj rated too
CommonY(xi, xj) ==
    LET Both(p) == rm[xj][p[1]] > 0
        s == SelectSeq(xr[xi], Both)
    IN  [i \in 1..Len(s) |-> s[i][1]]

\* the differences rm[xi, y] - rm[xj, y] over the sequence ys
DiffsOver(xi, xj, ys) == [i \in 1..Len(ys) |-> rm[xi][ys[i]] - rm[xj][ys[i]]]

\* np.mean of a sequence of integers (NaN for the empty sequence)
Mean(s) == IF s = <<>> THEN NaN ELSE Rat(ISum(s), Len(s))

\* lines 218-220: the deviations the sum of squares runs over
CloneDeviations(ds) ==
    [i \in 1..Len(ds) |-> RSub(RInt(ds[i]), Mean(ds))]

\* simMSDClone
simMSDClone(xi, xj) ==
    LET Yij == CommonY(xi, xj)
        dev == CloneDeviations(DiffsOver(xi, xj, Yij))
        ssd == RSum([i \in 1..Len(dev) |-> RMul(dev[i], dev[i])])
    IN  IF Yij = <<>> THEN SInt(0)
        ELSE IF RIsZero(ssd) THEN SInt(Len(Yij))
        ELSE SRat(RDiv(RInt(Len(Yij)), ssd))

----------------------------------------------------------------------------
(* Algo: recording a prediction *)

\* est is a rational <<n, d>> or an unevaluated weighted average (3 fields)
IsWAvg(e) == Len(e) = 3

\* self.est == 0
EstIsZero(e) == ~IsWAvg(e) /\ RIsZero(e)

\* line 89: the value updatePreds substitutes for est = 0
DefaultEst == 3

\* lines 87-95: the prediction updatePreds builds from the current est
predInfo(u0, m0, r0) ==
    [wasImpossible |-> EstIsZero(est), u0 |-> u0, m0 |-> m0, r0 |-> r0,
     est |-> IF EstIsZero(est) THEN RInt(DefaultEst) ELSE est]

\* Python's min(a, b) and max(a, b) on floats: b only if strictly beyond a
PyMin(a, b) == IF RLess(b, a) THEN b ELSE a
PyMax(a, b) == IF RLess(a, b) THEN b ELSE a

\* cut_estimate(inf, sup).  An unevaluated weighted average has nonnegative
\* weights on ratings of 1..5, so it lies in [1, 5] and is left as it is.
cut_estimate(e, inf, sup) ==
    IF IsWAvg(e) THEN e
    ELSE PyMax(RInt(inf), PyMin(RInt(sup), e))

----------------------------------------------------------------------------
(* AlgoBasicCollaborative and AlgoCollabMeanDiff *)

\* lines 232 and 421
DefaultK == 40

\* what a read of an unwritten cell of np.empty may return
Garbage == {SInt(0), SInt(1), SInt(-1)}

\* simMat[x0, x] as estimate reads it; g[x] is what an unwritten cell returns
ReadSim(x0, x, g) == IF simMat[x0][x] = <<>> THEN g[x] ELSE simMat[x0][x]

RECURSIVE Raters(_, _)
\* lines 241-242, 440-441: the x of x..lastXi with rm[x, y0] > 0, ascending
Raters(x, y0) ==
    IF x > lastXi THEN <<>>
    ELSE (IF rm[x][y0] > 0 THEN <<x>> ELSE <<>>) \o Raters(x + 1, y0)

RECURSIVE InsertDesc(_, _)
\* e goes behind every element whose similarity is not smaller than its own
InsertDesc(e, s) ==
    IF s = <<>> THEN <<e>>
    ELSE IF SLess(Head(s)[2], e[2]) THEN <<e>> \o s
    ELSE <<Head(s)>> \o InsertDesc(e, Tail(s))

RECURSIVE SortDesc(_)
\* sorted(simX0, key=lambda x: x[1], reverse=True): descending and stable
SortDesc(s) ==
    IF s = <<>> THEN <<>>
    ELSE InsertDesc(s[Len(s)], SortDesc(SubSeq(s, 1, Len(s) - 1)))

\* simX0[:self.k]
TopK(s) == SubSeq(s, 1, IF Len(s) < k THEN Len(s) ELSE k)

\* lines 240-250, 439-449: the sorted list of (x, sim(x0, x))
SortedSimX0(x0, y0, g) ==
    LET xs == Raters(1, y0)
    IN  SortDesc([i \in 1..Len(xs) |-> <<xs[i], ReadSim(x0, xs[i], g)>>])

\* AlgoCollabMeanDiff.meanDiff
meanDiff(xa, xb) ==
    LET ds == DiffsOver(xa, xb, CommonY(xa, xb))
    IN  IF ds = <<>> THEN RInt(0) ELSE Mean(ds)

\* line 254 and line 453: the rating a neighbour votes with
RatNeighboor(x0, x, y0) ==
    IF algo = "CollabMeanDiff" THEN RAdd(RInt(rm[x][y0]), meanDiff(x0, x))
    ELSE RInt(rm[x][y0])

\* the sum of the rational weights wts
WSum(wts) == RSum([i \in 1..Len(wts) |-> <<wts[i][1], wts[i][2]>>])

\* np.average raises ZeroDivisionError: the weights sum to zero.  Weights
\* that are not all rational are cosine similarities, none negative.
WeightsSumToZero(wts) ==
    IF \A i \in 1..Len(wts) : SIsRat(wts[i]) THEN RIsZero(WSum(wts))
    ELSE \A i \in 1..Len(wts) : SIsZero(wts[i])

\* np.average(rats, weights=wts) when the weights do not sum to zero
average(rats, wts) ==
    IF \A i \in 1..Len(wts) : SIsRat(wts[i])
    THEN RDiv(RSum([i \in 1..Len(wts) |->
                      RMul(rats[i], <<wts[i][1], wts[i][2]>>)]), WSum(wts))
    ELSE <<rats, wts, "wavg">>

\* a slip in lines 246 and 445: the default rating instead of the sentinel
KNNEstDefault(x0, y0, g) ==
    LET nb   == TopK(SortedSimX0(x0, y0, g))
        wts  == [i \in 1..Len(nb) |-> nb[i][2]]
        rats == [i \in 1..Len(nb) |-> RatNeighboor(x0, nb[i][1], y0)]
    IN  IF nb = <<>> THEN RInt(DefaultEst)
        ELSE IF WeightsSumToZero(wts) THEN RInt(0)
        ELSE average(rats, wts)

\* lines 238-258 and 437-457: the est that estimate leaves
KNNEst(x0, y0, g) ==
    LET nb   == TopK(SortedSimX0(x0, y0, g))
        wts  == [i \in 1..Len(nb) |-> nb[i][2]]
        rats == [i \in 1..Len(nb) |-> RatNeighboor(x0, nb[i][1], y0)]
    IN  IF nb = <<>> \/ WeightsSumToZero(wts) THEN RInt(0)
        ELSE average(rats, wts)

\* the branches of estimate that set est = 0
KNNSentinel(x0, y0, g) ==
    LET nb == TopK(SortedSimX0(x0, y0, g))
    IN  nb = <<>> \/ WeightsSumToZero([i \in 1..Len(nb) |-> nb[i][2]])

----------------------------------------------------------------------------
(* AlgoClone *)

\* line 360: range(-4, 5)
MinOffset == -4
MaxOffset == 4

\* line 357: the pairs (rm[x0, y], rm[x, y]) over the y of xr[x0] x rated
commonRatings(x0, x) ==
    LET ys == CommonY(x0, x)
    IN  [i \in 1..Len(ys) |-> <<rm[x0][ys[i]], rm[x][ys[i]]>>]

\* a slip in line 349: sigma < len(w)
isCloneStrict(cr, kk) ==
    ISum([i \in 1..Len(cr) |-> Abs(cr[i][1] - cr[i][2] - kk)]) < Len(cr)

\* isClone, on the list of pairs (xa_i, xb_i)
isClone(cr, kk) ==
    ISum([i \in 1..Len(cr) |-> Abs(cr[i][1] - cr[i][2] - kk)]) <= Len(cr)

RECURSIVE CloneOffsets(_, _, _)
\* lines 360-362: the candidates one neighbour adds, from offset kk on
CloneOffsets(cr, rx, kk) ==
    IF kk > MaxOffset THEN <<>>
    ELSE (IF isClone(cr, kk) THEN <<rx + kk>> ELSE <<>>)
         \o CloneOffsets(cr, rx, kk + 1)

RECURSIVE CloneCandidates(_, _)
\* lines 355-362: the candidates the neighbours listed in nbs add
CloneCandidates(x0, nbs) ==
    IF nbs = <<>> THEN <<>>
    ELSE LET cr == commonRatings(x0, Head(nbs)[1])
         IN  (IF cr = <<>> THEN <<>>
              ELSE CloneOffsets(cr, Head(nbs)[2], MinOffset))
             \o CloneCandidates(x0, Tail(nbs))

\* lines 364-367
CloneEst(cands) == IF cands # <<>> THEN Mean(cands) ELSE RInt(0)

----------------------------------------------------------------------------
(* AlgoWithBaseline *)

\* lines 302-304
reg_u == 15
reg_i == 10
nIter == 10

\* lines 306-307
reg_x == IF ub THEN reg_u ELSE reg_i
reg_y == IF ~ub THEN reg_u ELSE reg_i

\* line 269: the mean of the present ratings
GlobalMean ==
    LET P == {c \in (1..lastXi) \X (1..lastYi) : rm[c[1]][c[2]] > 0}
    IN  IF P = {} THEN NaN
        ELSE Rat(SumOver(P, [c \in P |-> rm[c[1]][c[2]]]), Cardinality(P))

\* a slip in lines 312 and 317: the global mean is not subtracted
DeviationWithoutMean(r, m, b) == RSub(RInt(r), b)

\* the summand of devY and devX: r - mu - bias
Deviation(r, m, b) == RSub(RSub(RInt(r), m), b)

\* lines 310-313: the y-sweep, from the x-biases xb
SweepY(xb) ==
    [y \in 1..lastYi |->
        RDiv(RSum([i \in 1..Len(yr[y]) |->
                     Deviation(yr[y][i][2], mu, xb[yr[y][i][1]])]),
             RInt(reg_y + Len(yr[y])))]

\* lines 315-318: the x-sweep, from the y-biases yb
SweepX(yb) ==
    [x \in 1..lastXi |->
        RDiv(RSum([i \in 1..Len(xr[x]) |->
                     Deviation(xr[x][i][2], mu, yb[xr[x][i][1]])]),
             RInt(reg_x + Len(xr[x])))]

\* getBaseline
getBaseline(x, y) == RAdd(RAdd(mu, xBiases[x]), yBiases[y])

----------------------------------------------------------------------------
(* AlgoRandom *)

\* lines 116-119: the cells the histogram loops visit
HistogramCells == (1..(lastXi - 1)) \X (1..(lastYi - 1))

\* lines 115-119: the histogram before normalisation
Histogram ==
    [v \in Ratings |->
        Cardinality({c \in HistogramCells : rm[c[1]][c[2]] = v})]

----------------------------------------------------------------------------
(* The operations *)

algoVars == <<algo, sim, simMat, k, mu, xBiases, yBiases, nDone, fqs, distrib>>
callVars == <<est, candidates, simX0, query, sentinel, rawEst>>

UsingSim == {"basicCollaborative", "CollabMeanDiff"}

\* the sim names a caller passes: the known ones and 'Cos', the default of
\* AlgoBasicCollaborative.__init__
SimNames == knownSim \cup {"Cos"}

\* the true ratings r0 of the queries
TestRatings == {1, 5}

\* AlgoBasicCollaborative(..., sim=s) and AlgoCollabMeanDiff(..., sim=s).
\* AlgoCollabMeanDiff over the cosine matrix is not modelled.
ConstructUsingSim(name, s) ==
    /\ pc = "new"
    /\ name = "CollabMeanDiff" => s # "cos"
    /\ sim' = s
    /\ IF s \notin knownSim
       THEN \* raise NameError('WrongSimName')
            /\ pc' = "raised"
            /\ UNCHANGED <<algo, simMat, k>>
       ELSE /\ simMat' = constructSimMat(s)
            /\ k' = DefaultK
            /\ algo' = name
            /\ pc' = "ready"
    /\ UNCHANGED <<relVars, mu, xBiases, yBiases, nDone, fqs, distrib,
                   callVars, ret, preds>>

\* a call of simMSDClone(xi, xj)
SimMSDCloneCall(xi, xj) ==
    /\ pc = "ready"
    /\ algo \in UsingSim
    /\ ret' = <<xi, xj, simMSDClone(xi, xj)>>
    /\ UNCHANGED <<relVars, algoVars, callVars, preds, pc>>

\* AlgoBasicCollaborative.estimate and AlgoCollabMeanDiff.estimate
EstimateKNN(u0, m0) ==
    /\ pc = "ready"
    /\ algo \in UsingSim
    /\ Len(preds) < MaxPreds
    /\ \E g \in (IF sim = "MSDClone" THEN [1..lastXi -> Garbage]
                 ELSE {[x \in 1..lastXi |-> SInt(0)]}) :
         LET x0 == getx0y0(u0, m0)[1]
             y0 == getx0y0(u0, m0)[2]
         IN  /\ simX0' = SortedSimX0(x0, y0, g)
             /\ est' = KNNEst(x0, y0, g)
             /\ rawEst' = KNNEst(x0, y0, g)
             /\ sentinel' = KNNSentinel(x0, y0, g)
    /\ query' = <<u0, m0>>
    /\ ret' = <<>>
    /\ pc' = "estimated"
    /\ UNCHANGED <<relVars, algoVars, candidates, preds>>

\* AlgoClone(rm, ur, mr, movieBased)
ConstructClone ==
    /\ pc = "new"
    /\ algo' = "clone"
    /\ pc' = "ready"
    /\ UNCHANGED <<relVars, sim, simMat, k, mu, xBiases, yBiases, nDone, fqs,
                   distrib, callVars, ret, preds>>

\* AlgoClone.estimate
EstimateClone(u0, m0) ==
    /\ pc = "ready"
    /\ algo = "clone"
    /\ Len(preds) < MaxPreds
    /\ LET x0 == getx0y0(u0, m0)[1]
           y0 == getx0y0(u0, m0)[2]
           cands == CloneCandidates(x0, yr[y0])
       IN  /\ candidates' = cands
           /\ est' = CloneEst(cands)
           /\ rawEst' = CloneEst(cands)
           /\ sentinel' = (cands = <<>>)
    /\ query' = <<u0, m0>>
    /\ pc' = "estimated"
    /\ UNCHANGED <<relVars, algoVars, simX0, ret, preds>>

\* cut_estimate(1, 5), between estimate and updatePreds
CutEstimate ==
    /\ pc = "estimated"
    /\ est' = cut_estimate(est, 1, 5)
    /\ pc' = "cut"
    /\ UNCHANGED <<relVars, algoVars, candidates, simX0, query, sentinel,
                   rawEst, ret, preds>>

\* updatePreds(u0, m0, r0) for the query just estimated
UpdatePreds(r0) ==
    /\ pc \in {"estimated", "cut"}
    /\ preds' = Append(preds, predInfo(query[1], query[2], r0))
    /\ est' = predInfo(query[1], query[2], r0).est
    /\ pc' = "ready"
    /\ UNCHANGED <<relVars, algoVars, candidates, simX0, query, sentinel,
                   rawEst, ret>>

\* AlgoBaselineOnly(rm, ur, mr, movieBased, method): AlgoWithBaseline.__init__
\* up to the choice of the fitting method.  method = 'sgd' is not modelled;
\* any other name but 'als' (the default is 'opt') fits nothing.
ConstructBaselineOnly(method) ==
    /\ pc = "new"
    /\ algo' = "algoBaselineOnly"
    /\ mu' = GlobalMean
    /\ xBiases' = [x \in 1..lastXi |-> RInt(0)]
    /\ yBiases' = [y \in 1..lastYi |-> RInt(0)]
    /\ nDone' = 0
    /\ pc' = IF method = "als" THEN "als" ELSE "ready"
    /\ UNCHANGED <<relVars, sim, simMat, k, fqs, distrib, callVars, ret, preds>>

\* one pass of the loop of optimize_als: the y-sweep, then the x-sweep
ALSIteration ==
    /\ pc = "als"
    /\ nDone < nIter
    /\ yBiases' = SweepY(xBiases)
    /\ xBiases' = SweepX(SweepY(xBiases))
    /\ nDone' = nDone + 1
    /\ pc' = IF nDone + 1 = nIter THEN "ready" ELSE "als"
    /\ UNCHANGED <<relVars, algo, sim, simMat, k, mu, fqs, distrib, callVars,
                   ret, preds>>

\* AlgoBaselineOnly.estimate
EstimateBaseline(u0, m0) ==
    /\ pc = "ready"
    /\ algo = "algoBaselineOnly"
    /\ Len(preds) < MaxPreds
    /\ LET x0 == getx0y0(u0, m0)[1]
           y0 == getx0y0(u0, m0)[2]
       IN  /\ est' = getBaseline(x0, y0)
           /\ rawEst' = getBaseline(x0, y0)
    /\ sentinel' = FALSE
    /\ query' = <<u0, m0>>
    /\ pc' = "estimated"
    /\ UNCHANGED <<relVars, algoVars, candidates, simX0, ret, preds>>

\* AlgoRandom(rm, ur, mr): always user based
ConstructRandom ==
    /\ pc = "new"
    /\ ub
    /\ fqs' = Histogram
    /\ IF SumOver(Ratings, Histogram) = 0
       THEN \* fq/sum(fqs) raises ZeroDivisionError
            /\ pc' = "raised"
            /\ UNCHANGED <<algo, distrib>>
       ELSE /\ distrib' = [v \in Ratings |->
                              Rat(Histogram[v], SumOver(Ratings, Histogram))]
            /\ algo' = "random"
            /\ pc' = "ready"
    /\ UNCHANGED <<relVars, sim, simMat, k, mu, xBiases, yBiases, nDone,
                   callVars, ret, preds>>

\* AlgoRandom.estimate: a draw from self.distrib
EstimateRandom ==
    /\ pc = "ready"
    /\ algo = "random"
    /\ Len(preds) < MaxPreds
    /\ \E v \in Ratings :
         /\ distrib[v][1] > 0
         /\ est' = RInt(v)
         /\ rawEst' = RInt(v)
    /\ sentinel' = FALSE
    /\ \E u0 \in Users, m0 \in Movies : query' = <<u0, m0>>
    /\ pc' = "estimated"
    /\ UNCHANGED <<relVars, algoVars, candidates, simX0, ret, preds>>

----------------------------------------------------------------------------
(* Specifications *)

\* the relations of nx X-entities and ny Y-entities that hold at most
\* MaxRatings ratings, each among vals
Relations(nx, ny, vals) ==
    {m \in [1..nx -> [1..ny -> {0} \cup vals]] :
        Cardinality({c \in (1..nx) \X (1..ny) : m[c[1]][c[2]] > 0}) <= MaxRatings}

\* the relations in which every present rating is the same
ConstantRelations(nx, ny) ==
    UNION {Relations(nx, ny, {v}) : v \in Ratings}

LastX(b) == IF b THEN LastUi ELSE LastMi
LastY(b) == IF b THEN LastMi ELSE LastUi

\* the ratings of the relations the specifications start from
SimRatings == {1, 2, 5}
KNNRatings == {1, 2}
CloneRatings == {1, 2}

\* building the similarity measures, the lists of xr and yr in any order
Init ==
    \E b \in BOOLEAN :
        AlgoInit(b, LastX(b), LastY(b),
                 Relations(LastX(b), LastY(b), SimRatings), TRUE)

Next ==
    \/ \E name \in UsingSim, s \in SimNames : ConstructUsingSim(name, s)
    \/ \E xi \in 1..lastXi, xj \in 1..lastXi : SimMSDCloneCall(xi, xj)

Spec == Init /\ [][Next]_vars

\* the two k-nearest-neighbour estimators, the lists in any order
InitKNN ==
    \E b \in BOOLEAN :
        AlgoInit(b, LastX(b), LastY(b),
                 Relations(LastX(b), LastY(b), KNNRatings), TRUE)

NextKNN ==
    \/ \E name \in UsingSim, s \in SimNames : ConstructUsingSim(name, s)
    \/ \E u0 \in Users, m0 \in Movies : EstimateKNN(u0, m0)

SpecKNN == InitKNN /\ [][NextKNN]_vars

\* the k-nearest-neighbour estimators and the recording of their estimates
NextKNNPreds ==
    \/ NextKNN
    \/ CutEstimate
    \/ \E r0 \in TestRatings : UpdatePreds(r0)

SpecKNNPreds == InitKNN /\ [][NextKNNPreds]_vars

\* the relation of the clone scenario: X-entity 1 rated [3, 4, 5] and
\* X-entity 2 rated [1, 2, 3] on Y-entities 1..3, and 2 rated Y-entity 4 with 4
ScenarioRelation == <<(<<3, 4, 5, 0>>), (<<1, 2, 3, 4>>)>>

\* the relations of two X-entities and two Y-entities whose ratings are 1 or
\* 5: rating differences of 4, and candidates outside 1..5
FarRelations == [1..2 -> [1..2 -> {0, 1, 5}]]

\* AlgoClone, the lists in ascending order: the estimate sums over them
InitClone ==
    \/ \E b \in BOOLEAN :
         AlgoInit(b, LastX(b), LastY(b),
                  Relations(LastX(b), LastY(b), CloneRatings), FALSE)
    \/ \E b \in BOOLEAN : AlgoInit(b, 2, 2, FarRelations, FALSE)
    \/ AlgoInit(TRUE, 2, 4, {ScenarioRelation}, FALSE)

NextClone ==
    \/ ConstructClone
    \/ \E u0 \in Users, m0 \in Movies : EstimateClone(u0, m0)

SpecClone == InitClone /\ [][NextClone]_vars

\* AlgoClone and the recording of its estimates
NextClonePreds ==
    \/ NextClone
    \/ CutEstimate
    \/ \E r0 \in TestRatings : UpdatePreds(r0)

SpecClonePreds == InitClone /\ [][NextClonePreds]_vars

\* AlgoBaselineOnly over the relations with one rating value, the lists in
\* ascending order: the sweeps sum over them
InitALS ==
    \E b \in BOOLEAN :
        AlgoInit(b, LastX(b), LastY(b),
                 ConstantRelations(LastX(b), LastY(b)), FALSE)

NextALS ==
    \/ \E method \in {"als", "opt"} : ConstructBaselineOnly(method)
    \/ ALSIteration
    \/ \E u0 \in Users, m0 \in Movies : EstimateBaseline(u0, m0)

SpecALS == InitALS /\ [][NextALS]_vars

\* AlgoRandom
InitRandom ==
    AlgoInit(TRUE, LastUi, LastMi, Relations(LastUi, LastMi, Ratings), TRUE)

NextRandom ==
    \/ ConstructRandom
    \/ EstimateRandom
    \/ CutEstimate
    \/ \E r0 \in TestRatings : UpdatePreds(r0)

SpecRandom == InitRandom /\ [][NextRandom]_vars

----------------------------------------------------------------------------
(* Properties *)

X0 == getx0y0(query[1], query[2])[1]
Y0 == getx0y0(query[1], query[2])[2]

\* the Y-entities both xi and xj rated
Shared(xi, xj) == {y \in 1..lastYi : rm[xi][y] > 0 /\ rm[xj][y] > 0}

MSDPerfectAgreement ==
    (pc = "ready" /\ sim = "MSD") =>
        \A xi, xj \in 1..lastXi :
            (/\ xi # xj
             /\ Shared(xi, xj) # {}
             /\ \A y \in Shared(xi, xj) : rm[xi][y] = rm[xj][y])
            => simMat[xi][xj] = SInt(Cardinality(Shared(xi, xj)))

\* C5: after constructMSDSimMat every diagonal entry holds the value 100.
MSDDiagonalIsSentinel ==
    (pc = "ready" /\ sim = "MSD") =>
        \A x \in 1..lastXi : simMat[x][x] = SInt(MSDDiagonal)

\* C3 as claimed: AlgoBasicCollaborative.estimate over a matrix the
\* constructor has written leaves est = 0 when no X-entity other than X0
\* rated Y0, whether or not X0 rated it.
NoOtherRaterIsImpossible ==
    (/\ pc = "estimated"
     /\ algo = "basicCollaborative"
     /\ sim \in {"cos", "MSD"}
     /\ \A x \in 1..lastXi : x # X0 => rm[x][Y0] = 0)
    => EstIsZero(est)

\* C3 as amended: AlgoBasicCollaborative.estimate leaves est = 0 when no
\* X-entity at all, X0 included, has a nonzero rating for Y0.
NoRaterIsImpossible ==
    (/\ pc = "estimated"
     /\ algo = "basicCollaborative"
     /\ \A x \in 1..lastXi : rm[x][Y0] = 0)
    => EstIsZero(est)

\* an estimate for a Y-entity nobody rated, in a relation with ratings
NoRaterWitness ==
    /\ pc = "estimated"
    /\ algo = "basicCollaborative"
    /\ sim = "cos"
    /\ \A x \in 1..lastXi : rm[x][Y0] = 0
    /\ xr[X0] # <<>>
    /\ EstIsZero(est)

ClonePairs ==
    {p \in (1..lastXi) \X (MinOffset..MaxOffset) :
        /\ rm[p[1]][Y0] > 0
        /\ Shared(X0, p[1]) # {}
        /\ SumOver(Shared(X0, p[1]),
                   [y \in Shared(X0, p[1]) |->
                       Abs(rm[X0][y] - rm[p[1]][y] - p[2])])
             <= Cardinality(Shared(X0, p[1]))}

\* the number of times v occurs in the sequence s
Count(s, v) == Cardinality({i \in 1..Len(s) : s[i] = v})

\* C4: AlgoClone.estimate lists one candidate rx + kk for each pair of
\* ClonePairs and no other, and leaves est = their mean, unclamped, or the
\* sentinel 0 when there is none.
CloneCandidatesExact ==
    (pc = "estimated" /\ algo = "clone") =>
        LET pairs == ClonePairs
        IN  /\ Len(candidates) = Cardinality(pairs)
            /\ \A v \in (1 + MinOffset)..(5 + MaxOffset) :
                  Count(candidates, v) =
                      Cardinality({p \in pairs : rm[p[1]][Y0] + p[2] = v})
            /\ est = IF pairs = {} THEN RInt(0)
                     ELSE Rat(SumOver(pairs,
                                      [p \in pairs |-> rm[p[1]][Y0] + p[2]]),
                              Cardinality(pairs))

\* the scenario: X-entity 1 rated [3, 4, 5], X-entity 2 rated [1, 2, 3] and
\* rated the query's Y-entity 4: candidates 5, 6, 7 and est = 6, above 5
CloneScenarioWitness ==
    /\ pc = "estimated"
    /\ algo = "clone"
    /\ lastYi = 4
    /\ query = <<1, 4>>
    /\ Count(candidates, 6) = 1
    /\ Len(candidates) = 3
    /\ est = RInt(6)

\* C9: whenever AlgoClone.estimate produced a candidate, the updatePreds that
\* follows it records wasImpossible = False and the mean of the candidates.
CloneImpossibleDistinguishable ==
    [][(/\ algo = "clone"
        /\ pc = "estimated"
        /\ pc' = "ready"
        /\ candidates # <<>>)
       => (/\ ~preds'[Len(preds')].wasImpossible
           /\ preds'[Len(preds')].est = Mean(candidates))]_vars

\* C10: updatePreds appends one prediction and keeps the earlier ones; the
\* prediction has wasImpossible = True exactly when estimate took the
\* impossible outcome, with est = 3 then, and else the estimate, clamped into
\* [1, 5] when cut_estimate ran.  Stated for the queries of
\* AlgoBasicCollaborative, whose numeric estimates over ratings of 1..5 are
\* never 0, so that the sentinel is the only est = 0 that updatePreds meets.
PredictionRecordsOutcome ==
    [][(/\ algo = "basicCollaborative"
        /\ pc \in {"estimated", "cut"}
        /\ pc' = "ready")
       => (/\ Len(preds') = Len(preds) + 1
           /\ SubSeq(preds', 1, Len(preds)) = preds
           /\ preds'[Len(preds')].wasImpossible = sentinel
           /\ sentinel => preds'[Len(preds')].est = RInt(DefaultEst)
           /\ ~sentinel =>
                 preds'[Len(preds')].est =
                     IF pc = "cut" THEN cut_estimate(rawEst, 1, 5) ELSE rawEst)]_vars

\* C6: the histogram of AlgoRandom counts each rating value v once for every
\* pair (x, y) of 1..lastXi by 1..lastYi with rm[x, y] = v.
HistogramCountsAll ==
    fqs # <<>> =>
        \A v \in Ratings :
            fqs[v] = Cardinality({c \in (1..lastXi) \X (1..lastYi) :
                                     rm[c[1]][c[2]] = v})

\* the present ratings of the relation
Present == {c \in (1..lastXi) \X (1..lastYi) : rm[c[1]][c[2]] > 0}

\* C7: over a relation whose present ratings all equal v, mu = v, every
\* denominator reg + degree is positive, and from the first ALS iteration on
\* every x-bias and every y-bias is 0, also for entities without ratings.
ALSConstantFixedPoint ==
    (algo = "algoBaselineOnly" /\ Present # {}) =>
        \A c \in Present :
            (\A d \in Present : rm[d[1]][d[2]] = rm[c[1]][c[2]]) =>
                /\ mu = RInt(rm[c[1]][c[2]])
                /\ \A x \in 1..lastXi : reg_x + Len(xr[x]) > 0
                /\ \A y \in 1..lastYi : reg_y + Len(yr[y]) > 0
                /\ nDone >= 1 =>
                      /\ \A x \in 1..lastXi : xBiases[x] = RInt(0)
                      /\ \A y \in 1..lastYi : yBiases[y] = RInt(0)

\* the fit has run its nIter iterations over a relation that holds ratings
\* and an X-entity and a Y-entity without any
ALSConstantWitness ==
    /\ algo = "algoBaselineOnly"
    /\ pc = "ready"
    /\ nDone = nIter
    /\ Present # {}
    /\ \E x \in 1..lastXi : xr[x] = <<>>
    /\ \E y \in 1..lastYi : yr[y] = <<>>

====
